---- MODULE Spec2Model ----
(***************************************************************************)
(* Onboarding-and-payment commit protocol of the student onboarding        *)
(* dashboard (src/src/App.tsx, src/src/apis/handleFormSubmit.ts).          *)
(*                                                                         *)
(* The React component's state hooks are the variables.  Every event       *)
(* handler is one action; an async handler (handleSubmit, the checkout     *)
(* widget's handler) is cut at its awaits: each invocation is a record in  *)
(* `proc` whose pc names the await it is suspended at, and one action      *)
(* resumes it with the reply of the awaited call.  Text values are         *)
(* sequences of one-character strings.                                     *)
(***************************************************************************)
EXTENDS Integers, Sequences, FiniteSets, Bags, TLC

VARIABLES
    currentStep,        \* useState(0)                     App.tsx:135
    showSuccessModal,   \* useState(false)                 App.tsx:136
    generatedPassword,  \* useState('')                    App.tsx:137
    onLoad,             \* useState(false), busy indicator App.tsx:141
    errors,             \* FormErrors: field -> message    App.tsx:142
    touched,            \* fields blurred at least once    App.tsx:143
    paymentCompleted,   \* useState(false)                 App.tsx:144
    formData,           \* the applicant record            App.tsx:146
    proc,               \* bag of the suspended invocations of handleSubmit
    calls,              \* external operations called by the latest step
    alertMsg,           \* text the latest step passed to alert, "" when none
    event,              \* what the latest step was, "none" for wizard edits
    hist,               \* history of payments and commits (see InitHist)
    watch,              \* the part of the history this run records
    nRevisions,         \* blurs, and changes of fields that held a value, so far
    today,              \* the system clock's local date <<year, month, day>>
    westOfUTC           \* the local time zone is behind UTC

vars == <<currentStep, showSuccessModal, generatedPassword, onLoad, errors,
          touched, paymentCompleted, formData, proc, calls, alertMsg, event,
          hist, watch, nRevisions, today, westOfUTC>>

----------------------------------------------------------------------------
(* Bounds of the model *)

\* invocations of handleSubmit suspended at an await at the same time
MaxInFlight == 2
\* input events in one session beyond the first entry of each field: a blur,
\* or a change of a field that already holds a value
MaxRevisions == 1
\* distinct outputs of generatePassword that the model tells apart
NumPasswords == 2
\* the longest run of digits typed into a phone field
MaxDigits == 18
\* calls of loadRazorpayScript that a run counting them follows
MaxScripts == 2

----------------------------------------------------------------------------
(* Regular expressions of the validators.  A pattern is a sequence of      *)
(* items, each a character class with a repetition range; max = -1 is      *)
(* unbounded.  The patterns are anchored at both ends, as ^...$ is.        *)

\* the characters that \s matches and that String.prototype.trim() removes,
\* as far as a string of this notation can hold them: tab, line feed,
\* vertical tab (U+000B), form feed, carriage return, space, no-break space
\* (U+00A0), ogham space mark (U+1680) and zero width no-break space
\* (U+FEFF).  U+2000..U+200A, U+2028, U+2029, U+202F, U+205F and U+3000 are
\* white space to the code too; the lexer of this notation refuses them.
VerticalTab == ""
NoBreakSpace == " "
OghamSpaceMark == " "
ZeroWidthNoBreakSpace == "﻿"
Whitespace ==
    {" ", "\t", "\n", "\r", "\f", VerticalTab, NoBreakSpace,
     OghamSpaceMark, ZeroWidthNoBreakSpace}
Digit == {"0", "1", "2", "3", "4", "5", "6", "7", "8", "9"}

Item(neg, set, min, max) == [neg |-> neg, set |-> set, min |-> min, max |-> max]

InClass(item, c) == IF item.neg THEN c \notin item.set ELSE c \in item.set

\* the positions the match can be at after one item, from the positions P
StepItem(item, s, P) ==
    { q \in 0..Len(s) :
        \E p \in P :
            /\ p <= q
            /\ q - p >= item.min
            /\ (item.max < 0 \/ q - p <= item.max)
            /\ \A j \in (p + 1)..q : InClass(item, s[j]) }

RECURSIVE RegexEnds(_, _, _, _)
RegexEnds(pat, k, s, P) ==
    IF k > Len(pat) THEN P
    ELSE RegexEnds(pat, k + 1, s, StepItem(pat[k], s, P))

RegexTest(pat, s) == Len(s) \in RegexEnds(pat, 1, s, {0})

\* /^[^\s@]+@[^\s@]+\.[^\s@]+$/
EmailRe ==
    << Item(TRUE, Whitespace \cup {"@"}, 1, -1),
       Item(FALSE, {"@"}, 1, 1),
       Item(TRUE, Whitespace \cup {"@"}, 1, -1),
       Item(FALSE, {"."}, 1, 1),
       Item(TRUE, Whitespace \cup {"@"}, 1, -1) >>

\* /^[+]?[(]?[0-9]{1,4}[)]?[-\s.]?[0-9]{1,4}[-\s.]?[0-9]{1,9}$/
PhoneRe ==
    << Item(FALSE, {"+"}, 0, 1),
       Item(FALSE, {"("}, 0, 1),
       Item(FALSE, Digit, 1, 4),
       Item(FALSE, {")"}, 0, 1),
       Item(FALSE, {"-", "."} \cup Whitespace, 0, 1),
       Item(FALSE, Digit, 1, 4),
       Item(FALSE, {"-", "."} \cup Whitespace, 0, 1),
       Item(FALSE, Digit, 1, 9) >>

validateEmail(email) == RegexTest(EmailRe, email)

validatePhone(phone) == RegexTest(PhoneRe, phone)

\* variant: the string is tested without being trimmed
TrimIsEmpty_NoTrim(s) == s = <<>>

\* String.prototype.trim() leaves the empty string
TrimIsEmpty(s) == \A j \in 1..Len(s) : s[j] \in Whitespace

IsLeapYear(y) == (y % 4 = 0 /\ y % 100 # 0) \/ y % 400 = 0

DaysInMonth(y, m) ==
    IF m = 2 THEN (IF IsLeapYear(y) THEN 29 ELSE 28)
    ELSE IF m \in {4, 6, 9, 11} THEN 30
    ELSE 31

\* the calendar day after and before a date <<year, month, day>>
NextDay(d) ==
    IF d[3] < DaysInMonth(d[1], d[2]) THEN <<d[1], d[2], d[3] + 1>>
    ELSE IF d[2] < 12 THEN <<d[1], d[2] + 1, 1>>
    ELSE <<d[1] + 1, 1, 1>>

PrevDay(d) ==
    IF d[3] > 1 THEN <<d[1], d[2], d[3] - 1>>
    ELSE IF d[2] > 1 THEN <<d[1], d[2] - 1, DaysInMonth(d[1], d[2] - 1)>>
    ELSE <<d[1] - 1, 12, 31>>

\* new Date(dob) for a typed 'YYYY-MM-DD' is midnight UTC of that day; read
\* with getFullYear, getMonth and getDate it is the day before in a time
\* zone behind UTC, and the same day at or ahead of UTC
LocalDateOf(dob, west) == IF west THEN PrevDay(dob) ELSE dob

\* dob (as typed) and now (the local date) are <<year, month, day>>
validateDateOfBirthAt(dob, now, west) ==
    LET birthDate == LocalDateOf(dob, west)
        age0 == now[1] - birthDate[1]
        monthDiff == now[2] - birthDate[2]
        age == IF monthDiff < 0 \/ (monthDiff = 0 /\ now[3] < birthDate[3])
               THEN age0 - 1 ELSE age0
    IN  age >= 5 /\ age <= 25

validateDateOfBirth(dob) == validateDateOfBirthAt(dob, today, westOfUTC)

----------------------------------------------------------------------------
(* Data *)

\* const steps = [...]: six wizard steps, indexed 0..5
NumSteps == 6

\* the indices of steps
Steps == 0..(NumSteps - 1)

\* for (let i = 0; i < 12; i++) in generatePassword
PasswordLength == 12

\* the 70 characters generatePassword draws from
PasswordChars ==
    << "A", "B", "C", "D", "E", "F", "G", "H", "I", "J", "K", "L", "M",
       "N", "O", "P", "Q", "R", "S", "T", "U", "V", "W", "X", "Y", "Z",
       "a", "b", "c", "d", "e", "f", "g", "h", "i", "j", "k", "l", "m",
       "n", "o", "p", "q", "r", "s", "t", "u", "v", "w", "x", "y", "z",
       "0", "1", "2", "3", "4", "5", "6", "7", "8", "9",
       "!", "@", "#", "$", "%", "^", "&", "*" >>

\* variant: once a password is stored in generatedPassword it is returned
\* again instead of a newly computed one
generatePassword_Stored(draws) ==
    IF generatedPassword # <<>> THEN generatedPassword
    ELSE [i \in 1..PasswordLength |-> PasswordChars[draws[i] + 1]]

\* draws[i] is Math.floor(Math.random() * chars.length) of iteration i
generatePassword(draws) ==
    [i \in 1..PasswordLength |-> PasswordChars[draws[i] + 1]]

\* the k-th sequence of random draws the model tells apart
DrawSequence(k) ==
    [i \in 1..PasswordLength |-> (17 * k + 5 * i) % Len(PasswordChars)]

\* the sequences Math.random produces in a run: one, unless the run is
\* about the passwords
RandomDraws ==
    { DrawSequence(k) :
        k \in 1..(IF watch \in {"password", "fresh"} THEN NumPasswords
                                                      ELSE 1) }

\* { ...formData, password: newPassword }
FinalData(fd, newPassword) == [fd EXCEPT !.password = newPassword]

\* the fields of FormData that the model carries: every validated field
\* and the password
EmptyForm ==
    [ firstName |-> <<>>, lastName |-> <<>>, dateOfBirth |-> <<>>,
      email |-> <<>>, phone |-> <<>>, grade |-> <<>>,
      parentName |-> <<>>, parentEmail |-> <<>>, parentPhone |-> <<>>,
      password |-> <<>> ]

\* the inputs rendered on each step (renderStep), among the modelled fields
StepFields(step) ==
    CASE step = 0 -> {"firstName", "lastName", "dateOfBirth"}
      [] step = 1 -> {"email", "phone"}
      [] step = 2 -> {"grade"}
      [] step = 3 -> {"parentName", "parentEmail", "parentPhone"}
      [] OTHER    -> {}

\* the inputs that carry onBlur={() => handleBlur(...)}
BlurFields(step) == StepFields(step) \ {"grade"}

\* values the user types or picks, per field
FieldValues(field) ==
    CASE field = "firstName"   -> { <<>>, <<"A", "l">> }
      [] field = "lastName"    -> { <<"L", "i">> }
      [] field = "dateOfBirth" -> { <<2015, 3, 10>>, <<2023, 1, 1>> }
      [] field = "email"       -> { <<>>, <<"a", "@", "b", ".", "c", "o">>,
                                    <<"a", "@", "b">>,
                                    <<"c", "@", "d", ".", "e">> }
      [] field = "phone"       -> { <<>>, <<"1", "2">> }
      [] field = "grade"       -> { <<"5">> }
      [] field = "parentName"  -> { <<"M", "a">> }
      [] field = "parentEmail" -> { <<"p", "@", "q", ".", "r">> }
      [] OTHER                 -> { <<"9", "8", "7", "6", "5">> }

\* the fields the user blurs
BlurInputs == {"firstName", "email"}

\* an object literal built from a set of <<key, message>> pairs
ErrMap(pairs) ==
    [f \in {p[1] : p \in pairs} |-> (CHOOSE p \in pairs : p[1] = f)[2]]

NoErrors == ErrMap({})

HasError(errs, field) == field \in DOMAIN errs

\* delete newErrors[field]
DeleteKey(errs, field) == [f \in (DOMAIN errs) \ {field} |-> errs[f]]

\* variant: the object holds the one key and drops the others
SetKey_Alone(errs, field, msg) == ErrMap({<<field, msg>>})

\* { ...prev, [field]: msg }
SetKey(errs, field, msg) ==
    [f \in (DOMAIN errs) \cup {field} |-> IF f = field THEN msg ELSE errs[f]]

----------------------------------------------------------------------------
(* validateStep: the newErrors object it passes to setErrors; its boolean  *)
(* result is  newErrors = NoErrors.                                        *)

validateStep(step, fd) ==
    CASE step = 0 ->
           ErrMap(
             (IF TrimIsEmpty(fd.firstName)
                THEN {<<"firstName", "First name is required">>} ELSE {})
             \cup
             (IF TrimIsEmpty(fd.lastName)
                THEN {<<"lastName", "Last name is required">>} ELSE {})
             \cup
             (IF fd.dateOfBirth = <<>>
                THEN {<<"dateOfBirth", "Date of birth is required">>}
                ELSE IF ~validateDateOfBirth(fd.dateOfBirth)
                THEN {<<"dateOfBirth",
                        "Please enter a valid date of birth (age 5-25)">>}
                ELSE {}))
      [] step = 1 ->
           ErrMap(
             (IF fd.email = <<>>
                THEN {<<"email", "Email is required">>}
                ELSE IF ~validateEmail(fd.email)
                THEN {<<"email", "Please enter a valid email address">>}
                ELSE {})
             \cup
             (IF fd.phone # <<>> /\ ~validatePhone(fd.phone)
                THEN {<<"phone", "Please enter a valid phone number">>}
                ELSE {}))
      [] step = 2 ->
           ErrMap(
             IF fd.grade = <<>>
               THEN {<<"grade", "Grade is required">>} ELSE {})
      [] step = 3 ->
           ErrMap(
             (IF TrimIsEmpty(fd.parentName)
                THEN {<<"parentName", "Parent/Guardian name is required">>}
                ELSE {})
             \cup
             (IF fd.parentEmail = <<>>
                THEN {<<"parentEmail", "Parent email is required">>}
                ELSE IF ~validateEmail(fd.parentEmail)
                THEN {<<"parentEmail", "Please enter a valid email address">>}
                ELSE {})
             \cup
             (IF fd.parentPhone = <<>>
                THEN {<<"parentPhone", "Parent phone number is required">>}
                ELSE IF ~validatePhone(fd.parentPhone)
                THEN {<<"parentPhone", "Please enter a valid phone number">>}
                ELSE {}))
      [] OTHER -> NoErrors

\* variant: the loop lacks its break, so every step is validated and the
\* last failing step and the last step's errors are the ones that stay
RECURSIVE ValidateAllFrom_NoBreak(_, _)
ValidateAllFrom_NoBreak(fd, i) ==
    LET newErrors == validateStep(i, fd)
        failed == newErrors # NoErrors
    IN  IF i + 1 < NumSteps
          THEN LET rest == ValidateAllFrom_NoBreak(fd, i + 1)
               IN  [isValid |-> rest.isValid /\ ~failed,
                    step |-> IF rest.step # -1 THEN rest.step
                             ELSE IF failed THEN i ELSE -1,
                    errors |-> rest.errors]
          ELSE [isValid |-> ~failed,
                step |-> IF failed THEN i ELSE -1,
                errors |-> newErrors]

\* the for loop of handleSubmit from step i on: whether every step passed,
\* the step it broke at (-1 when none), and the last object given to setErrors
RECURSIVE ValidateAllFrom(_, _)
ValidateAllFrom(fd, i) ==
    LET newErrors == validateStep(i, fd)
    IN  IF newErrors # NoErrors
          THEN [isValid |-> FALSE, step |-> i, errors |-> newErrors]
        ELSE IF i + 1 < NumSteps
          THEN ValidateAllFrom(fd, i + 1)
        ELSE [isValid |-> TRUE, step |-> -1, errors |-> newErrors]

\* variant: the loop starts at step 1
ValidateAll_FromOne(fd) == ValidateAllFrom(fd, 1)

ValidateAll(fd) == ValidateAllFrom(fd, 0)

----------------------------------------------------------------------------
(* External calls and their replies *)

Operations ==
    {"fetchRazorpayKey", "loadRazorpayScript", "createOrder",
     "verifyPayment", "handleFormSubmit"}

\* what axios.post ends with: a 2xx response, an AxiosError carrying the
\* response's status (0: no response at all), or an error of another kind
PostReplies ==
    { [kind |-> "response", code |-> 201],
      [kind |-> "axiosError", code |-> 409],
      [kind |-> "axiosError", code |-> 500],
      [kind |-> "axiosError", code |-> 0],
      [kind |-> "error", code |-> 0] }

\* handleFormSubmit: the object it returns; defined = FALSE is undefined
\* (the branches that only alert), statusCode 0 is an undefined statusCode
handleFormSubmit(reply) ==
    CASE reply.kind = "response" ->
           [defined |-> TRUE, status |-> TRUE, statusCode |-> reply.code]
      [] reply.kind = "axiosError" ->
           [defined |-> TRUE, status |-> FALSE, statusCode |-> reply.code]
      [] OTHER ->
           [defined |-> FALSE, status |-> FALSE, statusCode |-> 0]

\* the text handleFormSubmit alerts, "" when it alerts nothing
handleFormSubmitAlert(reply) ==
    IF reply.kind = "error" THEN "error.message" ELSE ""

\* variant: any object that handleFormSubmit returns counts as a success
ResponseStatus_AnyObject(res) == res.defined

\* submitResponse?.status
ResponseStatus(res) == res.defined /\ res.status

\* variant: no response is taken for a conflict
ResponseIsConflict_Never(res) == FALSE

\* variant: every response without status is taken for a conflict
ResponseIsConflict_AnyFailure(res) == ~ResponseStatus(res)

\* !submitResponse?.status && submitResponse?.statusCode === 409
ResponseIsConflict(res) ==
    ~ResponseStatus(res) /\ res.defined /\ res.statusCode = 409

\* the server answered the commit with a 2xx response
RepliedAccepted(res) == res.defined /\ res.status

\* the server answered the commit with HTTP 409
RepliedConflict(res) == res.defined /\ ~res.status /\ res.statusCode = 409

\* how `event` names the result of a commit made by the widget's handler
Outcome(res) ==
    IF RepliedAccepted(res) THEN "accepted"
    ELSE IF RepliedConflict(res) THEN "duplicate"
    ELSE "failure"

\* how `event` names the result of a commit made on the direct path
DirectOutcome(res) ==
    IF RepliedAccepted(res) THEN "directAccepted"
    ELSE IF RepliedConflict(res) THEN "directDuplicate"
    ELSE "directFailure"

\* a JavaScript value that may be undefined
Undefined == [defined |-> FALSE, value |-> 0]
Defined(v) == [defined |-> TRUE, value |-> v]

\* createOrder: the body it posts, as JSON.stringify writes it: a key whose
\* value is undefined is left out (Date.now() is not told apart)
createOrderBody(amount) ==
    LET body == [amount   |-> amount,
                 currency |-> Defined("INR"),
                 receipt  |-> Defined("receipt_Date.now()"),
                 notes    |-> Defined([customer_name  |-> "chiranjeevi",
                                       customer_email |-> "test@b2p.com"])]
    IN  [k \in {key \in DOMAIN body : body[key].defined} |-> body[k].value]

\* the argument handleSubmit passes to createOrder: it passes none
CreateOrderArgument == Undefined

\* the orders the server returns with success = true
Orders ==
    { [id |-> "order_1", amount |-> 49900, currency |-> "INR"],
      [id |-> "order_2", amount |-> 100, currency |-> "USD"] }

\* the options handleSubmit constructs the widget with (the constant ones,
\* the key and the callbacks left out)
RazorpayOptions(order) ==
    [amount |-> order.amount, currency |-> order.currency,
     order_id |-> order.id]

\* what verifyPayment ends with: the parsed body with success true or false,
\* a body that parses to null, or a rejection (fetch or JSON error)
VerifyReplies == {"success", "rejected", "null", "throw"}

\* variant: no verification result passes the test
VerificationTruthy_Never(r) == FALSE

\* if(verificationResult): any parsed object is truthy
VerificationTruthy(r) == r \in {"success", "rejected"}

\* variant: the payment branch is taken whatever the flag says
NeedsPayment_Always(completed) == TRUE

\* variant: the test of the flag is inverted
NeedsPayment_Inverted(completed) == completed

\* if (!paymentCompleted)
NeedsPayment(completed) == ~completed

----------------------------------------------------------------------------
(* State *)

\* one suspended invocation of handleSubmit (or of the handler it gave the
\* widget): the await it is at, its finalData, whether razorPayKey is a key
\* (FALSE: undefined), and its verificationResult ("none" before it has one)
Invocation(pc, fd, key) ==
    [pc |-> pc, fd |-> fd, key |-> key, verificationResult |-> "none"]

InFlight == BagToSet(proc)

\* the invocation p resumes and suspends again as q
Resume(p, q) == (proc (-) SetToBag({p})) (+) SetToBag({q})

\* variant: the invocation stays suspended where it was
Return_Keep(p) == proc

\* the invocation p resumes and returns
Return(p) == proc (-) SetToBag({p})

\* History, kept for the properties only; a run records the one part that
\* `watch` names (and conflict along with retry), so that the parts do not
\* multiply the states:
\*   paid      verifyPayment results with success = true since the last
\*             Accepted commit
\*   verified  some verifyPayment call has returned a result
\*   conflict  a commit made after a successful verification got HTTP 409
\*   retry     "verified" once a verification succeeded; "none" again
\*             once a direct commit is Accepted: no direct commit has been
\*             Accepted since the latest successful verification
\*   settled   a commit was Accepted and no verifyPayment call has returned
\*             a result since
\*   failed    a commit ended in neither Accepted nor HTTP 409
\*   passed    the steps for which a validateStep call has produced an
\*             empty error object
\*   scripts   the script elements that loadRazorpayScript appended to
\*             document.body
\*   made      how many times createOrder, verifyPayment and
\*             handleFormSubmit have been called
\*   order     the body of the latest createOrder request (once sent), and
\*             the order returned for the latest widget with the options it
\*             was constructed with (once opened)
\*   fresh     the values Math.random returned to the latest call of
\*             generatePassword (draws), those it returned to all the calls
\*             so far (drawn), and the passwords of the records that the
\*             submissions so far were started with (carried)
CountedOperations == {"createOrder", "verifyPayment", "handleFormSubmit"}

InitHist ==
    [paid |-> 0, verified |-> FALSE, conflict |-> FALSE, retry |-> "none",
     settled |-> FALSE, failed |-> FALSE, passed |-> {}, scripts |-> 0,
     made |-> [op \in CountedOperations |-> 0],
     order |-> [sent |-> FALSE, body |-> << >>, opened |-> FALSE,
                returned |-> [id |-> "", amount |-> 0, currency |-> ""],
                options |-> [amount |-> 0, currency |-> "",
                             order_id |-> ""]],
     fresh |-> [draws |-> << >>, drawn |-> {}, carried |-> {}]]

\* the history with the watched part updated to what `new` says
Record(new) ==
    [part \in DOMAIN hist |->
        IF part = watch \/ (part = "conflict" /\ watch = "retry")
          THEN new[part] ELSE hist[part]]

\* the calls made so far and those of `called`
Made(called) ==
    [op \in CountedOperations |->
        IF op \in called THEN hist.made[op] + 1 ELSE hist.made[op]]

\* the history after the operations of `called` were called
HistAfterCalls(called) ==
    Record([hist EXCEPT
              !.made = Made(called),
              !.order = IF "createOrder" \in called
                          THEN [@ EXCEPT !.sent = TRUE,
                                         !.body = createOrderBody(
                                                    CreateOrderArgument)]
                          ELSE @])

\* the history after the widget was constructed for the returned order
HistAfterOpen(order) ==
    Record([hist EXCEPT
              !.order = [@ EXCEPT !.opened = TRUE,
                                  !.returned = order,
                                  !.options = RazorpayOptions(order)]])

\* the history after verifyPayment settled with r
HistAfterVerify(r) ==
    Record([paid     |-> IF r = "success" THEN hist.paid + 1 ELSE hist.paid,
            verified |-> hist.verified \/ r # "throw",
            conflict |-> hist.conflict,
            retry    |-> IF r = "success" THEN "verified" ELSE hist.retry,
            settled  |-> hist.settled /\ r = "throw",
            failed   |-> hist.failed,
            passed   |-> hist.passed,
            scripts  |-> hist.scripts,
            made     |-> IF r # "throw" /\ VerificationTruthy(r)
                           THEN Made({"handleFormSubmit"}) ELSE hist.made,
            order    |-> hist.order,
            fresh    |-> hist.fresh])

\* the history after the commit of invocation p settled with res
HistAfterCommit(p, res) ==
    LET accepted == res.defined /\ res.status
        duplicate == res.defined /\ ~res.status /\ res.statusCode = 409
        afterSuccess == p.verificationResult = "success"
    IN  Record([paid     |-> IF accepted THEN 0 ELSE hist.paid,
                verified |-> hist.verified,
                conflict |-> hist.conflict \/ (duplicate /\ afterSuccess),
                retry    |->
                  IF p.pc = "direct" /\ accepted THEN "none"
                  ELSE hist.retry,
                settled  |-> hist.settled \/ accepted,
                failed   |-> hist.failed \/ (~accepted /\ ~duplicate),
                passed   |-> hist.passed,
                scripts  |-> hist.scripts,
                made     |-> hist.made,
                order    |-> hist.order,
                fresh    |-> hist.fresh])

\* the history after validateStep produced an empty error object for each
\* step of `steps`
HistAfterValidation(steps) ==
    Record([hist EXCEPT !.passed = hist.passed \cup steps])

\* the history after Submit validated every step, called generatePassword,
\* which consumed `draws`, built finalData and called the operations of
\* `called`
HistAfterSubmit(called, draws, finalData) ==
    Record([hist EXCEPT
              !.passed = hist.passed \cup (0..(NumSteps - 1)),
              !.made = Made(called),
              !.fresh = [draws |-> draws,
                         drawn |-> @.drawn \cup {draws},
                         carried |-> @.carried \cup {finalData.password}]])

\* the history after loadRazorpayScript was called: the executor of its
\* promise creates a script element and appends it before anything resolves
HistAfterLoad ==
    Record([hist EXCEPT !.scripts = hist.scripts + 1])

\* the steps among `steps` that validateStep accepts for the record fd
AcceptedSteps(steps, fd) ==
    {step \in steps : validateStep(step, fd) = NoErrors}

InitWatching(part) ==
    /\ currentStep = 0
    /\ showSuccessModal = FALSE
    /\ generatedPassword = <<>>
    /\ onLoad = FALSE
    /\ errors = NoErrors
    /\ touched = {}
    /\ paymentCompleted = FALSE
    /\ formData = EmptyForm
    /\ proc = EmptyBag
    /\ calls = {}
    /\ alertMsg = ""
    /\ event = "none"
    /\ hist = InitHist
    /\ watch = part
    /\ nRevisions = 0
    /\ today = <<2026, 10, 29>>
    /\ westOfUTC = FALSE

Init == InitWatching("none")

\* a step of the wizard that calls nothing and alerts nothing
Quiet == calls' = {} /\ alertMsg' = "" /\ event' = "none"

----------------------------------------------------------------------------
(* The handlers of the wizard *)

updateFormData(field, value) ==
    /\ field \in StepFields(currentStep)
    /\ value # formData[field]
    /\ formData[field] # <<>> => nRevisions < MaxRevisions
    /\ nRevisions' = IF formData[field] # <<>> THEN nRevisions + 1
                     ELSE nRevisions
    /\ formData' = [formData EXCEPT ![field] = value]
    /\ errors' = IF HasError(errors, field)
                   THEN DeleteKey(errors, field) ELSE errors
    /\ Quiet
    /\ UNCHANGED <<currentStep, showSuccessModal, generatedPassword, onLoad,
                   touched, paymentCompleted, proc, hist, today, westOfUTC, watch>>

\* variant: the errors of the step are merged into the error object
handleBlur_Merge(field) ==
    /\ field \in BlurFields(currentStep)
    /\ nRevisions < MaxRevisions
    /\ nRevisions' = nRevisions + 1
    /\ touched' = touched \cup {field}
    /\ errors' =
         LET newErrors == validateStep(currentStep, formData)
         IN  [f \in DOMAIN errors \cup DOMAIN newErrors |->
                IF f \in DOMAIN newErrors THEN newErrors[f] ELSE errors[f]]
    /\ hist' = HistAfterValidation(AcceptedSteps({currentStep}, formData))
    /\ Quiet
    /\ UNCHANGED <<currentStep, showSuccessModal, generatedPassword, onLoad,
                   paymentCompleted, formData, proc, today, westOfUTC, watch>>

handleBlur(field) ==
    /\ field \in BlurFields(currentStep)
    /\ nRevisions < MaxRevisions
    /\ nRevisions' = nRevisions + 1
    /\ touched' = touched \cup {field}
    /\ errors' = validateStep(currentStep, formData)
    /\ hist' = HistAfterValidation(AcceptedSteps({currentStep}, formData))
    /\ Quiet
    /\ UNCHANGED <<currentStep, showSuccessModal, generatedPassword, onLoad,
                   paymentCompleted, formData, proc, today, westOfUTC, watch>>

\* variant: the step advances whatever validateStep returns
handleNext_AlwaysAdvance ==
    /\ currentStep < NumSteps - 1
    /\ errors' = validateStep(currentStep, formData)
    /\ currentStep' = currentStep + 1
    /\ hist' = HistAfterValidation(AcceptedSteps({currentStep}, formData))
    /\ Quiet
    /\ UNCHANGED <<showSuccessModal, generatedPassword, onLoad, touched,
                   paymentCompleted, formData, proc, nRevisions, today, westOfUTC,
                   watch>>

\* variant: a valid step advances the wizard by two steps
handleNext_SkipOne ==
    /\ currentStep < NumSteps - 1
    /\ errors' = validateStep(currentStep, formData)
    /\ currentStep' =
         IF errors' # NoErrors THEN currentStep
         ELSE IF currentStep + 2 < NumSteps THEN currentStep + 2
         ELSE NumSteps - 1
    /\ hist' = HistAfterValidation(AcceptedSteps({currentStep}, formData))
    /\ Quiet
    /\ UNCHANGED <<showSuccessModal, generatedPassword, onLoad, touched,
                   paymentCompleted, formData, proc, nRevisions, today, westOfUTC,
                   watch>>

handleNext ==
    /\ currentStep < NumSteps - 1
    /\ errors' = validateStep(currentStep, formData)
    /\ currentStep' =
         IF errors' = NoErrors /\ currentStep < NumSteps - 1
           THEN currentStep + 1 ELSE currentStep
    /\ hist' = HistAfterValidation(AcceptedSteps({currentStep}, formData))
    /\ Quiet
    /\ UNCHANGED <<showSuccessModal, generatedPassword, onLoad, touched,
                   paymentCompleted, formData, proc, nRevisions, today, westOfUTC,
                   watch>>

\* variant: the step goes down from step 0 too
handlePrevious_Unguarded ==
    /\ currentStep' = currentStep - 1
    /\ Quiet
    /\ UNCHANGED <<showSuccessModal, generatedPassword, onLoad, errors,
                   touched, paymentCompleted, formData, proc, hist, nRevisions,
                   today, westOfUTC, watch>>

handlePrevious ==
    /\ currentStep > 0
    /\ currentStep' = currentStep - 1
    /\ Quiet
    /\ UNCHANGED <<showSuccessModal, generatedPassword, onLoad, errors,
                   touched, paymentCompleted, formData, proc, hist, nRevisions,
                   today, westOfUTC, watch>>

handleModalClose ==
    /\ showSuccessModal
    /\ showSuccessModal' = FALSE
    /\ Quiet
    /\ UNCHANGED <<currentStep, generatedPassword, onLoad, errors, touched,
                   paymentCompleted, formData, proc, hist, nRevisions, today, westOfUTC, watch>>

\* handleSubmit up to its first await (or its return when a step is invalid)
handleSubmit ==
    /\ currentStep = NumSteps - 1
    /\ LET v == ValidateAll(formData)
       IN  IF ~v.isValid
             THEN /\ errors' = v.errors
                  /\ currentStep' = v.step
                  /\ calls' = {}
                  /\ event' = "invalid"
                  /\ hist' = HistAfterValidation(0..(v.step - 1))
                  /\ UNCHANGED <<generatedPassword, onLoad, proc>>
             ELSE /\ BagCardinality(proc) < MaxInFlight
                  /\ \E draws \in RandomDraws :
                       LET newPassword == generatePassword(draws)
                           finalData == FinalData(formData, newPassword)
                       IN  /\ generatedPassword' = newPassword
                           /\ IF NeedsPayment(paymentCompleted)
                                THEN /\ calls' = {"fetchRazorpayKey"}
                                     /\ event' = "pay"
                                     /\ hist' = HistAfterSubmit(
                                          {}, draws, finalData)
                                     /\ proc' = proc (+) SetToBag(
                                          {Invocation("key", finalData, FALSE)})
                                ELSE /\ calls' = {"handleFormSubmit"}
                                     /\ event' = "direct"
                                     /\ hist' = HistAfterSubmit(
                                          {"handleFormSubmit"}, draws,
                                          finalData)
                                     /\ proc' = proc (+) SetToBag(
                                          {Invocation("direct", finalData, FALSE)})
                  /\ errors' = v.errors
                  /\ onLoad' = TRUE
                  /\ currentStep' = currentStep
    /\ alertMsg' = ""
    /\ UNCHANGED <<showSuccessModal, touched, paymentCompleted, formData,
                   nRevisions, today, westOfUTC, watch>>

\* fetchRazorpayKey settles (undefined when it caught an error);
\* handleSubmit goes on to loadRazorpayScript
KeyReply(p, gotKey) ==
    /\ p.pc = "key"
    /\ watch = "scripts" => hist.scripts < MaxScripts
    /\ proc' = Resume(p, [p EXCEPT !.pc = "script", !.key = gotKey])
    /\ calls' = {"loadRazorpayScript"}
    /\ hist' = HistAfterLoad
    /\ alertMsg' = ""
    /\ event' = IF gotKey THEN "key" ELSE "nokey"
    /\ UNCHANGED <<currentStep, showSuccessModal, generatedPassword, onLoad,
                   errors, touched, paymentCompleted, formData, nRevisions,
                   today, westOfUTC, watch>>

\* variant: handleSubmit goes on to createOrder whatever the script load
\* resolved to
ScriptReply_IgnoreResult(p, scriptLoaded) ==
    /\ p.pc = "script"
    /\ calls' = {"createOrder"}
    /\ proc' = Resume(p, [p EXCEPT !.pc = "order"])
    /\ alertMsg' = ""
    /\ event' = IF scriptLoaded THEN "script" ELSE "noscript"
    /\ hist' = HistAfterCalls(calls')
    /\ UNCHANGED <<currentStep, showSuccessModal, generatedPassword, onLoad,
                   errors, touched, paymentCompleted, formData,
                   nRevisions, today, westOfUTC, watch>>

\* loadRazorpayScript resolves; handleSubmit goes on to createOrder
ScriptReply(p, scriptLoaded) ==
    /\ p.pc = "script"
    /\ IF ~scriptLoaded
         THEN /\ alertMsg' = "Error Loading RazorPay Script"
              /\ onLoad' = FALSE
              /\ proc' = Return(p)
              /\ calls' = {}
              /\ event' = "noscript"
       ELSE IF p.key
         THEN /\ calls' = {"createOrder"}
              /\ proc' = Resume(p, [p EXCEPT !.pc = "order"])
              /\ alertMsg' = ""
              /\ onLoad' = onLoad
              /\ event' = "script"
       ELSE /\ onLoad' = FALSE
            /\ proc' = Return(p)
            /\ calls' = {}
            /\ alertMsg' = ""
            /\ event' = "skipped"
    /\ hist' = HistAfterCalls(calls')
    /\ UNCHANGED <<currentStep, showSuccessModal, generatedPassword, errors,
                   touched, paymentCompleted, formData, nRevisions, today, westOfUTC,
                   watch>>

\* variant: the widget is opened whatever createOrder settled with
OrderReply_IgnoreFailure(p, created) ==
    /\ p.pc = "order"
    /\ proc' = Resume(p, [p EXCEPT !.pc = "widget"])
    /\ event' = IF created THEN "opened" ELSE "orderfail"
    /\ onLoad' = FALSE
    /\ calls' = {}
    /\ alertMsg' = ""
    /\ UNCHANGED <<currentStep, showSuccessModal, generatedPassword, errors,
                   touched, paymentCompleted, formData, hist, nRevisions,
                   today, westOfUTC, watch>>

\* variant: a failure of createOrder is caught and the busy indicator is
\* left as it was
OrderReply_NoFinally(p, created) ==
    /\ p.pc = "order"
    /\ proc' = IF created THEN Resume(p, [p EXCEPT !.pc = "widget"])
               ELSE Return(p)
    /\ event' = IF created THEN "opened" ELSE "orderfail"
    /\ onLoad' = IF created THEN FALSE ELSE onLoad
    /\ calls' = {}
    /\ alertMsg' = ""
    /\ UNCHANGED <<currentStep, showSuccessModal, generatedPassword, errors,
                   touched, paymentCompleted, formData, hist, nRevisions,
                   today, westOfUTC, watch>>

\* createOrder settles; on success the widget is opened and handleSubmit
\* returns through finally, on failure it goes through catch and finally
OrderReply(p, created) ==
    /\ p.pc = "order"
    /\ proc' = IF created THEN Resume(p, [p EXCEPT !.pc = "widget"])
               ELSE Return(p)
    /\ \E order \in Orders :
         hist' = IF created THEN HistAfterOpen(order) ELSE hist
    /\ event' = IF created THEN "opened" ELSE "orderfail"
    /\ onLoad' = FALSE
    /\ calls' = {}
    /\ alertMsg' = ""
    /\ UNCHANGED <<currentStep, showSuccessModal, generatedPassword, errors,
                   touched, paymentCompleted, formData, nRevisions, today, westOfUTC,
                   watch>>

\* options.handler is invoked with the receipt: it calls verifyPayment
WidgetHandler(p) ==
    /\ p.pc = "widget"
    /\ proc' = Resume(p, [p EXCEPT !.pc = "verify"])
    /\ calls' = {"verifyPayment"}
    /\ hist' = HistAfterCalls(calls')
    /\ alertMsg' = ""
    /\ event' = "completed"
    /\ UNCHANGED <<currentStep, showSuccessModal, generatedPassword, onLoad,
                   errors, touched, paymentCompleted, formData, nRevisions,
                   today, westOfUTC, watch>>

\* options.modal.ondismiss
WidgetDismiss(p) ==
    /\ p.pc = "widget"
    /\ proc' = Return(p)
    /\ onLoad' = FALSE
    /\ calls' = {}
    /\ alertMsg' = ""
    /\ event' = "cancelled"
    /\ UNCHANGED <<currentStep, showSuccessModal, generatedPassword, errors,
                   touched, paymentCompleted, formData, hist, nRevisions, today, westOfUTC, watch>>

\* verifyPayment settles inside options.handler
VerifyReply(p, r) ==
    /\ p.pc = "verify"
    /\ IF r # "throw" /\ VerificationTruthy(r)
         THEN /\ paymentCompleted' = TRUE
              /\ calls' = {"handleFormSubmit"}
              /\ proc' = Resume(p, [p EXCEPT !.pc = "commit",
                                              !.verificationResult = r])
         ELSE /\ proc' = Return(p)
              /\ calls' = {}
              /\ paymentCompleted' = paymentCompleted
    /\ event' = r
    /\ hist' = HistAfterVerify(r)
    /\ alertMsg' = ""
    /\ UNCHANGED <<currentStep, showSuccessModal, generatedPassword, onLoad,
                   errors, touched, formData, nRevisions, today, westOfUTC, watch>>

\* handleFormSubmit settles inside options.handler
CommitReply(p, reply) ==
    /\ p.pc = "commit"
    /\ LET submitResponse == handleFormSubmit(reply)
       IN  /\ showSuccessModal' =
                IF ResponseStatus(submitResponse) THEN TRUE
                ELSE showSuccessModal
           /\ errors' =
                IF ResponseIsConflict(submitResponse)
                  THEN SetKey(errors, "email",
                              "This email is already registered")
                  ELSE errors
           /\ currentStep' =
                IF ResponseIsConflict(submitResponse) THEN 1 ELSE currentStep
           /\ event' = Outcome(submitResponse)
           /\ hist' = HistAfterCommit(p, submitResponse)
    /\ proc' = Return(p)
    /\ alertMsg' = handleFormSubmitAlert(reply)
    /\ onLoad' = FALSE
    /\ calls' = {}
    /\ UNCHANGED <<generatedPassword, touched, paymentCompleted, formData,
                   nRevisions, today, westOfUTC, watch>>

\* handleFormSubmit settles in the branch "payment already completed"
DirectReply(p, reply) ==
    /\ p.pc = "direct"
    /\ LET response == handleFormSubmit(reply)
       IN  /\ showSuccessModal' =
                IF ResponseStatus(response) THEN TRUE ELSE showSuccessModal
           /\ paymentCompleted' =
                IF ResponseStatus(response) THEN FALSE ELSE paymentCompleted
           /\ errors' =
                IF ResponseIsConflict(response)
                  THEN SetKey(errors, "email",
                              "This email is already registered")
                  ELSE errors
           /\ currentStep' =
                IF ResponseIsConflict(response) THEN 1 ELSE currentStep
           /\ event' = DirectOutcome(response)
           /\ hist' = HistAfterCommit(p, response)
    /\ proc' = Return(p)
    /\ alertMsg' = handleFormSubmitAlert(reply)
    /\ onLoad' = FALSE
    /\ calls' = {}
    /\ UNCHANGED <<generatedPassword, touched, formData, nRevisions, today, westOfUTC, watch>>

Fields ==
    {"firstName", "lastName", "dateOfBirth", "email", "phone", "grade",
     "parentName", "parentEmail", "parentPhone"}

Next ==
    \/ \E field \in Fields : \E value \in FieldValues(field) :
         updateFormData(field, value)
    \/ \E field \in BlurInputs : handleBlur(field)
    \/ handleNext
    \/ handlePrevious
    \/ handleModalClose
    \/ handleSubmit
    \/ \E p \in InFlight : \E gotKey \in BOOLEAN : KeyReply(p, gotKey)
    \/ \E p \in InFlight : \E loaded \in BOOLEAN : ScriptReply(p, loaded)
    \/ \E p \in InFlight : \E created \in BOOLEAN : OrderReply(p, created)
    \/ \E p \in InFlight : WidgetHandler(p)
    \/ \E p \in InFlight : WidgetDismiss(p)
    \/ \E p \in InFlight : \E r \in VerifyReplies : VerifyReply(p, r)
    \/ \E p \in InFlight : \E reply \in PostReplies : CommitReply(p, reply)
    \/ \E p \in InFlight : \E reply \in PostReplies : DirectReply(p, reply)

Spec == Init /\ [][Next]_vars

\* the same program, recording one part of the history
SpecPaid == InitWatching("paid") /\ [][Next]_vars
SpecVerified == InitWatching("verified") /\ [][Next]_vars
SpecRetry == InitWatching("retry") /\ [][Next]_vars
SpecSettled == InitWatching("settled") /\ [][Next]_vars
SpecPassword == InitWatching("password") /\ [][Next]_vars
SpecFresh == InitWatching("fresh") /\ [][Next]_vars
SpecFailed == InitWatching("failed") /\ [][Next]_vars
SpecPassed == InitWatching("passed") /\ [][Next]_vars
SpecScripts == InitWatching("scripts") /\ [][Next]_vars
SpecOrder == InitWatching("order") /\ [][Next]_vars

\* every pending external call settles: the promises of fetchRazorpayKey,
\* loadRazorpayScript, createOrder, verifyPayment and handleFormSubmit
\* resolve or reject; the user is not obliged to do anything
Settling ==
    /\ WF_vars(\E p \in InFlight : \E gotKey \in BOOLEAN : KeyReply(p, gotKey))
    /\ WF_vars(\E p \in InFlight : \E loaded \in BOOLEAN :
                  ScriptReply(p, loaded))
    /\ WF_vars(\E p \in InFlight : \E created \in BOOLEAN :
                  OrderReply(p, created))
    /\ WF_vars(\E p \in InFlight : \E r \in VerifyReplies : VerifyReply(p, r))
    /\ WF_vars(\E p \in InFlight : \E reply \in PostReplies :
                  CommitReply(p, reply))
    /\ WF_vars(\E p \in InFlight : \E reply \in PostReplies :
                  DirectReply(p, reply))

SpecLive == Init /\ [][Next]_vars /\ Settling

\* Scenario A: the user fills the wizard and presses Submit until a
\* submission passes validation, then waits; every external call succeeds,
\* the widget completes with a receipt, verifyPayment returns success = true
\* and the POST returns 201
AcceptedReply == [kind |-> "response", code |-> 201]

SubmitOnce ==
    /\ proc = EmptyBag
    /\ hist.made = InitHist.made
    /\ handleSubmit

NextScenarioA ==
    \/ \E field \in Fields : \E value \in FieldValues(field) :
         updateFormData(field, value)
    \/ \E field \in BlurInputs : handleBlur(field)
    \/ handleNext
    \/ handlePrevious
    \/ handleModalClose
    \/ SubmitOnce
    \/ \E p \in InFlight : KeyReply(p, TRUE)
    \/ \E p \in InFlight : ScriptReply(p, TRUE)
    \/ \E p \in InFlight : OrderReply(p, TRUE)
    \/ \E p \in InFlight : WidgetHandler(p)
    \/ \E p \in InFlight : VerifyReply(p, "success")
    \/ \E p \in InFlight : CommitReply(p, AcceptedReply)

SettlingScenarioA ==
    /\ WF_vars(\E p \in InFlight : KeyReply(p, TRUE))
    /\ WF_vars(\E p \in InFlight : ScriptReply(p, TRUE))
    /\ WF_vars(\E p \in InFlight : OrderReply(p, TRUE))
    /\ WF_vars(\E p \in InFlight : WidgetHandler(p))
    /\ WF_vars(\E p \in InFlight : VerifyReply(p, "success"))
    /\ WF_vars(\E p \in InFlight : CommitReply(p, AcceptedReply))

SpecScenarioA ==
    InitWatching("made") /\ [][NextScenarioA]_vars /\ SettlingScenarioA

----------------------------------------------------------------------------
(* The validators on their own: validateStep called on records and dates   *)
(* drawn from bounded sets                                                 *)

\* the same month and day n years earlier
YearsBefore(d, n) == <<d[1] - n, d[2], d[3]>>

\* the dates new Date() is drawn from
Todays ==
    { <<2026, 10, 29>>, <<2026, 1, 1>>, <<2026, 12, 31>>, <<2026, 3, 1>>,
      <<2025, 2, 28>>, <<2024, 3, 1>>, <<2026, 6, 30>>, <<2026, 7, 15>> }

\* the dates of birth typed when today is `now`: those around the ages the
\* validator tells apart, and no date
BirthDates(now) ==
    {<<>>} \cup
    UNION { { YearsBefore(now, n), NextDay(YearsBefore(now, n)),
              NextDay(NextDay(YearsBefore(now, n))),
              PrevDay(YearsBefore(now, n)) } : n \in {5, 6, 25, 26} }

\* a record with the fields of `given` typed and the others empty
RecordWith(given) ==
    [f \in DOMAIN EmptyForm |->
        IF f \in DOMAIN given THEN given[f] ELSE EmptyForm[f]]

\* the digits 1, 2, ..., 9, 0, 1, ... as a string of length n
DigitString(n) ==
    [i \in 1..n |-> <<"0", "1", "2", "3", "4", "5", "6", "7", "8",
                       "9">>[(i % 10) + 1]]

\* the phone numbers typed: runs of 0..MaxDigits digits, bare or after "+",
\* "+(" or a letter, and some numbers with grouping punctuation
PhoneInputs ==
    { prefix \o DigitString(n) :
        prefix \in {<<>>, <<"+">>, <<"+", "(">>, <<"a">>},
        n \in 0..MaxDigits }
    \cup
    { <<"(", "1", "2", "3", ")", " ", "4", "5", "6", "-", "7", "8", "9", "0">>,
      <<"1", "2", "-", "3">>,
      <<"1", "-", "2">>,
      <<"1", "+", "2", "3">>,
      <<"1", "2", ".", "3", "4", ".", "5", "6">>,
      <<"1", "2", "3", "4", "5">> \o <<"-">> \o <<"6", "7">> }
    \cup
    { <<"1", "2", c, "3", "4">> : c \in Whitespace }

\* emails typed with a white space character in one of their three parts
EmailInputs ==
    UNION { { <<"a", c, "b", "@", "c", ".", "d", "e">>,
              <<"a", "@", "b", c, ".", "c">>,
              <<"a", "@", "b", ".", "c", c>> } : c \in Whitespace }

\* names typed as one or two white space characters
BlankNames ==
    { <<c>> : c \in Whitespace } \cup { <<c, " ">> : c \in Whitespace }

\* values of each field that validateStep tells apart: empty, blank,
\* malformed, well-formed
ValidatedValues(field) ==
    CASE field = "firstName"   -> { <<>>, <<" ">>, <<"A", "l">> }
      [] field = "lastName"    -> { <<>>, <<"L", "i">> }
      [] field = "dateOfBirth" -> { <<>>, <<2015, 3, 10>>, <<2023, 1, 1>> }
      [] field = "email"       -> { <<>>, <<"a", "@", "b">>,
                                    <<"a", "@", "b", ".", "c", "o">> }
      [] field = "phone"       -> { <<>>, <<"1", "2">>, <<"1", "2", "3">> }
      [] field = "grade"       -> { <<>>, <<"5">> }
      [] field = "parentName"  -> { <<" ">>, <<"M", "a">> }
      [] field = "parentEmail" -> { <<>>, <<"p", "@", "q", ".", "r">> }
      [] field = "parentPhone" -> { <<>>, <<"1", "2">>,
                                    <<"9", "8", "7", "6", "5">> }
      [] OTHER                 -> { <<>> }

\* every record with one of those values in each field
StepRecords ==
    [ firstName : ValidatedValues("firstName"),
      lastName : ValidatedValues("lastName"),
      dateOfBirth : ValidatedValues("dateOfBirth"),
      email : ValidatedValues("email"),
      phone : ValidatedValues("phone"),
      grade : ValidatedValues("grade"),
      parentName : ValidatedValues("parentName"),
      parentEmail : ValidatedValues("parentEmail"),
      parentPhone : ValidatedValues("parentPhone"),
      password : ValidatedValues("password") ]

\* the records validateStep is called on
ValidatedRecords(now) ==
    { RecordWith([dateOfBirth |-> dob]) : dob \in BirthDates(now) }
    \cup { RecordWith([phone |-> phone]) : phone \in PhoneInputs }
    \cup { RecordWith([email |-> email]) : email \in EmailInputs }
    \cup { RecordWith([firstName |-> name]) : name \in BlankNames }
    \cup (IF now = <<2026, 10, 29>> THEN StepRecords ELSE {})

InitValidate ==
    /\ today \in Todays
    /\ westOfUTC \in BOOLEAN
    /\ formData \in ValidatedRecords(today)
    /\ currentStep = 0
    /\ showSuccessModal = FALSE
    /\ generatedPassword = <<>>
    /\ onLoad = FALSE
    /\ errors = NoErrors
    /\ touched = {}
    /\ paymentCompleted = FALSE
    /\ proc = EmptyBag
    /\ calls = {}
    /\ alertMsg = ""
    /\ event = "none"
    /\ hist = InitHist
    /\ watch = "none"
    /\ nRevisions = 0

\* a call validateStep(step): it gives setErrors the errors of the step
Validate(step) ==
    /\ errors' = validateStep(step, formData)
    /\ hist' = HistAfterValidation(AcceptedSteps({step}, formData))
    /\ Quiet
    /\ UNCHANGED <<currentStep, showSuccessModal, generatedPassword, onLoad,
                   touched, paymentCompleted, formData, proc, nRevisions,
                   today, westOfUTC, watch>>

NextValidate == \E step \in Steps : Validate(step)

SpecValidate == InitValidate /\ [][NextValidate]_vars

----------------------------------------------------------------------------
(* Properties *)

InvalidSteps(fd) == {step \in Steps : validateStep(step, fd) # NoErrors}

\* the lowest-indexed step of fd that fails validation
FirstInvalidStep(fd) ==
    CHOOSE step \in InvalidSteps(fd) :
        \A other \in InvalidSteps(fd) : step <= other

\* the latest step was a press of "Complete Registration"
SubmitPressed == event \in {"invalid", "pay", "direct"}

\* C1: at most one payment receipt is successfully verified before a commit
\* is Accepted (the applicant is charged at most once), whatever the
\* interleaving of presses of Submit and replies.
C1_AtMostOneCharge == hist.paid <= 1

\* C2 as stated: once a commit made after a successful verification has got
\* HTTP 409, every later Submit that passes validation goes straight to the
\* account-creation call and never to the payment calls.
C2_EveryLaterSubmitSkipsPayment ==
    (hist.conflict /\ event \in {"pay", "direct"})
        => (event = "direct" /\ calls = {"handleFormSubmit"})

\* C2 as amended: after a successful verification whose commit got HTTP 409,
\* every Submit that passes validation while no commit on the direct path
\* has been Accepted since the latest successful verification calls the
\* account-creation endpoint and none of fetchRazorpayKey,
\* loadRazorpayScript, createOrder, verifyPayment.
C2_RetrySkipsPayment ==
    /\ (/\ hist.conflict
        /\ hist.retry = "verified"
        /\ event \in {"pay", "direct"})
         => (event = "direct" /\ calls = {"handleFormSubmit"})
    /\ event \in {"directAccepted", "directDuplicate", "directFailure"}
         => calls = {}

\* a Submit pressed after the 409 went straight to the commit
C2_Witness == hist.conflict /\ hist.retry = "verified" /\ event = "direct"

\* C3: every call of the account-creation endpoint comes after a
\* verifyPayment call has returned: no commit is in flight, and none is
\* being issued, before any verification has completed.
C3_CommitOnlyAfterVerification ==
    \/ hist.verified
    \/ /\ "handleFormSubmit" \notin calls
       /\ \A p \in InFlight : p.pc \notin {"commit", "direct"}

\* a commit is in flight on the direct path and another in the handler
C3_Witness ==
    /\ \E p \in InFlight : p.pc = "direct"
    /\ \E p \in InFlight : p.pc = "commit"

\* C4: when verifyPayment returns success = false, the flag is not set and
\* the account-creation endpoint is not called for that receipt.
C4_RejectedVerificationAborts ==
    [][event' = "rejected"
         => (paymentCompleted' = paymentCompleted
             /\ "handleFormSubmit" \notin calls')]_vars

\* C5: after a commit has been Accepted, no later Submit reaches the
\* account-creation endpoint unless a verifyPayment call has returned since.
C5_NoCommitWithoutNewPayment == event = "direct" => ~hist.settled

\* C6: whenever a commit returns Accepted, on the handler path or on the
\* direct path, the success state is shown and the flag is false afterwards.
C6_AcceptedClearsFlag ==
    event \in {"accepted", "directAccepted"}
        => (showSuccessModal /\ ~paymentCompleted)

\* C7: the busy indicator is true in every state between a Submit that
\* passed validation and that submission's terminal outcome.
C7_BusyUntilOutcome == BagCardinality(proc) > 0 => onLoad

\* C8: at most one submission is in flight at a time.
C8_SingleInFlight == BagCardinality(proc) <= 1

\* C9: a Submit pressed on a record with an invalid step calls none of the
\* external operations, starts nothing and leaves the busy indicator as it
\* was, whatever the flag says.
C9_InvalidSubmitCallsNothing ==
    [][(currentStep = NumSteps - 1 /\ InvalidSteps(formData) # {}
          /\ event' \in {"invalid", "pay", "direct"})
         => (event' = "invalid" /\ calls' = {} /\ proc' = proc
             /\ onLoad' = onLoad /\ paymentCompleted' = paymentCompleted)]_vars

\* a Submit found an invalid step while the flag was true
C9_Witness == event = "invalid" /\ paymentCompleted

\* C10: when Submit finds an invalid step, the current step becomes the
\* lowest-indexed failing step and the error map is exactly that step's
\* errors (no later step's validation has replaced it).
C10_FirstInvalidStepShown ==
    event = "invalid"
        => /\ currentStep = FirstInvalidStep(formData)
           /\ errors = validateStep(FirstInvalidStep(formData), formData)

\* a Submit found an invalid step and the wizard shows its errors
C10_Witness == event = "invalid" /\ errors # NoErrors /\ ~onLoad

\* the latest step was a commit that returned HTTP 409
DuplicateEmailEvents == {"duplicate", "directDuplicate"}

\* the latest step was a commit that ended in neither Accepted nor HTTP 409
TransportFailureEvents == {"failure", "directFailure"}

\* C11: when a commit returns HTTP 409, on the handler path and on the
\* direct path, the current step becomes 1, errors.email becomes "This email
\* is already registered" and the flag keeps the value it had.
C11_DuplicateEmailReturnsToStepOne ==
    [][event' \in DuplicateEmailEvents
         => /\ currentStep' = 1
            /\ HasError(errors', "email")
            /\ errors'["email"] = "This email is already registered"
            /\ paymentCompleted' = paymentCompleted]_vars

\* a 409 on the handler path moved the wizard to step 1, the flag still true
C11_Witness ==
    /\ event = "duplicate"
    /\ paymentCompleted
    /\ currentStep = 1
    /\ HasError(errors, "email")

\* C12: a commit that returns HTTP 409 leaves every field of the record and
\* the touched set unchanged; of the wizard's state only the email error,
\* the current step and the busy indicator change.
C12_DuplicateEmailKeepsTheRest ==
    [][event' \in DuplicateEmailEvents
         => /\ formData' = formData
            /\ touched' = touched
            /\ showSuccessModal' = showSuccessModal
            /\ generatedPassword' = generatedPassword
            /\ paymentCompleted' = paymentCompleted
            /\ DeleteKey(errors', "email") = DeleteKey(errors, "email")]_vars

\* a 409 arrived while the error object held the error of another field
C12_Witness ==
    /\ event \in DuplicateEmailEvents
    /\ HasError(errors, "firstName")
    /\ HasError(errors, "email")

\* C13: when a commit ends in TransportFailure the flag and the current
\* step are unchanged, and a Submit that follows with the flag true goes
\* straight to the account-creation call: no createOrder, no verifyPayment.
C13_TransportFailureKeepsFlagAndStep ==
    [][/\ event' \in TransportFailureEvents
           => /\ paymentCompleted' = paymentCompleted
              /\ currentStep' = currentStep
       /\ (hist.failed /\ paymentCompleted /\ event' \in {"pay", "direct"})
           => /\ event' = "direct"
              /\ calls' = {"handleFormSubmit"}
       /\ event' \in {"directAccepted", "directDuplicate", "directFailure"}
           => calls' = {}]_vars

\* after a commit ended in TransportFailure, a Submit went straight to the
\* account-creation call
C13_Witness == hist.failed /\ paymentCompleted /\ event = "direct"

\* the invocations suspended at one of the places `pcs`
Suspended(pcs) == {p \in InFlight : p.pc \in pcs}

\* C14: every TransportFailure on order creation, verification or commit is
\* surfaced: the step that receives it changes something the user sees (the
\* error object, an alert, the modal, the step or the busy indicator).
C14_TransportFailureSurfaced ==
    [][event' \in {"orderfail", "throw"} \cup TransportFailureEvents
         => \/ alertMsg' # ""
            \/ errors' # errors
            \/ showSuccessModal' # showSuccessModal
            \/ currentStep' # currentStep
            \/ onLoad' # onLoad]_vars

\* C15: the dismissal of the widget sets the busy indicator to false and
\* changes nothing else; the attempt ends without a call to verifyPayment
\* or to the account-creation endpoint.
C15_DismissOnlyClearsBusy ==
    [][event' = "cancelled"
         => /\ onLoad' = FALSE
            /\ calls' = {}
            /\ alertMsg' = ""
            /\ BagCardinality(proc') = BagCardinality(proc) - 1
            /\ Suspended({"verify", "commit", "direct"})'
                 = Suspended({"verify", "commit", "direct"})
            /\ UNCHANGED <<paymentCompleted, currentStep, formData, errors,
                           touched, showSuccessModal, generatedPassword>>]_vars

\* a widget was dismissed while the flag was true and another submission
\* was in flight
C15_Witness ==
    event = "cancelled" /\ paymentCompleted /\ BagCardinality(proc) > 0

\* C16: when loadRazorpayScript resolves false the submission ends there:
\* createOrder is not called, no widget is opened, no commit is started,
\* the flag is left as it was and the busy indicator is false.
C16_ScriptLoadFailureAborts ==
    [][event' = "noscript"
         => /\ calls' = {}
            /\ onLoad' = FALSE
            /\ paymentCompleted' = paymentCompleted
            /\ BagCardinality(proc') = BagCardinality(proc) - 1
            /\ Suspended({"order", "widget", "verify", "commit", "direct"})'
                 = Suspended({"order", "widget", "verify", "commit",
                              "direct"})]_vars

\* a script load resolved false and the submission ended, flag false
C16_Witness ==
    /\ event = "noscript"
    /\ ~paymentCompleted
    /\ ~onLoad
    /\ alertMsg = "Error Loading RazorPay Script"
    /\ InFlight = {}

\* C17: when the key fetch fails the submission is aborted: an alert is
\* shown, loadRazorpayScript is not called afterwards, nothing stays in
\* flight for the attempt and the flag is unchanged.
C17_KeyFailureAborts ==
    [][event' = "nokey"
         => /\ alertMsg' # ""
            /\ "loadRazorpayScript" \notin calls'
            /\ BagCardinality(proc') = BagCardinality(proc) - 1
            /\ paymentCompleted' = paymentCompleted]_vars

\* C18: Next advances the step by exactly one if and only if validateStep
\* of the current step gives an empty error object and the step is not the
\* last; otherwise the step is unchanged and the error object is the
\* current step's errors. Next changes neither the record nor the flag.
C18_NextAdvancesOnlyWhenValid ==
    [][handleNext
         => LET stepErrors == validateStep(currentStep, formData)
                advances == /\ stepErrors = NoErrors
                            /\ currentStep # NumSteps - 1
            IN  /\ advances => currentStep' = currentStep + 1
                /\ ~advances => currentStep' = currentStep
                /\ errors' = stepErrors
                /\ formData' = formData
                /\ paymentCompleted' = paymentCompleted]_vars

\* Next advanced from step 0 and was refused on step 1 (no blur and no
\* Submit has happened, so the errors shown are those Next has set)
C18_Witness ==
    /\ currentStep = 1
    /\ touched = {}
    /\ generatedPassword = <<>>
    /\ errors # NoErrors
    /\ errors = validateStep(1, formData)

\* C19: whenever the wizard is on the last step, each step before it has
\* produced an empty error object in an earlier validateStep call.
C19_LastStepOnlyAfterEveryStepPassed ==
    currentStep = NumSteps - 1 => (0..(NumSteps - 2)) \subseteq hist.passed

\* the wizard is on the last step and no Submit has been pressed yet
C19_Witness ==
    /\ currentStep = NumSteps - 1
    /\ generatedPassword = <<>>
    /\ errors = NoErrors
    /\ hist.passed = 0..(NumSteps - 2)

\* C20: the current step is always one of 0..N-1.
C20_StepInRange == currentStep \in Steps

\* Previous has walked the wizard from the last step, where a Submit was
\* pressed, down to step 0
C20_Witness == currentStep = 0 /\ BagCardinality(proc) > 0

\* C21: handleFormSubmit always resolves to an outcome object: status true
\* for a 2xx response, status false with statusCode 409 for HTTP 409, and
\* an object with status false and another statusCode for every other
\* failure. Stated of every step in which a commit settles.
C21_CommitterResolvesToOutcome ==
    [][\A p \in InFlight : \A reply \in PostReplies :
         (CommitReply(p, reply) \/ DirectReply(p, reply))
           => LET res == handleFormSubmit(reply)
              IN  /\ res.defined
                  /\ reply.kind = "response" => res.status
                  /\ (reply.kind = "axiosError" /\ reply.code = 409)
                       => (~res.status /\ res.statusCode = 409)
                  /\ (reply.kind # "response" /\ reply.code # 409)
                       => (~res.status /\ res.statusCode # 409)]_vars

\* the records carried by the submissions in flight
PayloadsInFlight == {p.fd : p \in InFlight}

\* earlier (a day past 25 years).
C23_DateOfBirthBoundaries ==
    [][Validate(0)
         => LET dob == formData.dateOfBirth
                rejected == HasError(errors', "dateOfBirth")
            IN  /\ dob = YearsBefore(today, 5) => ~rejected
                /\ dob = NextDay(YearsBefore(today, 5)) => rejected
                /\ dob = YearsBefore(today, 25) => ~rejected
                /\ dob = PrevDay(YearsBefore(today, 25)) => rejected]_vars

\* the number of digits in a string
CountDigits(s) == Cardinality({j \in 1..Len(s) : s[j] \in Digit})

\* C24: validateStep(1) accepts a phone number that is not empty only if
\* it is made of digits and grouping punctuation after an optional leading
\* "+", with at least 3 and at most 14 digits.
C24_PhoneDigitsBetween3And14 ==
    [][Validate(1)
         => LET phone == formData.phone
                accepted == phone # <<>> /\ ~HasError(errors', "phone")
            IN  accepted
                  => /\ CountDigits(phone) >= 3
                     /\ CountDigits(phone) <= 14
                     /\ \A j \in 1..Len(phone) :
                          \/ phone[j] \in Digit
                          \/ phone[j] \in {"(", ")", "-", "."} \cup Whitespace
                          \/ phone[j] = "+" /\ j = 1]_vars

\* what C25 requires of each field
FieldFails(field, fd) ==
    CASE field \in {"firstName", "lastName", "parentName"} ->
           \A j \in 1..Len(fd[field]) : fd[field][j] \in Whitespace
      [] field = "dateOfBirth" ->
           fd[field] = <<>> \/ ~validateDateOfBirth(fd[field])
      [] field \in {"email", "parentEmail"} -> ~validateEmail(fd[field])
      [] field = "phone" -> fd[field] # <<>> /\ ~validatePhone(fd[field])
      [] field = "parentPhone" -> ~validatePhone(fd[field])
      [] field = "grade" -> fd[field] = <<>>
      [] OTHER -> FALSE

\* C25: validateStep(step) reports exactly the fields of the step that fail:
\* blank first, last or guardian name, missing or out-of-range date of
\* birth, malformed email, non-empty malformed phone, missing grade,
\* malformed guardian email or phone; steps 4 and 5 report nothing.
C25_ValidateStepChecksItsFields ==
    [][\A step \in Steps :
         Validate(step)
           => /\ DOMAIN errors' =
                   {f \in StepFields(step) : FieldFails(f, formData)}
              /\ step \in {4, 5} => errors' = NoErrors]_vars

\* validateStep(3) reported a blank guardian name and a malformed guardian
\* phone on a record whose step 0 and step 1 fail too
C25_Witness ==
    /\ DOMAIN errors = {"parentName", "parentPhone"}
    /\ formData.parentName = <<" ">>
    /\ formData.firstName = <<" ">>
    /\ formData.phone = <<"1", "2">>

\* C26: every validation call (blur, Next, the loop of Submit) replaces the
\* error object by exactly the errors of the step it validated last: the
\* errors of other steps and an earlier "already registered" error are not
\* kept.
C26_ValidationReplacesErrors ==
    [][/\ ((\E field \in BlurInputs : handleBlur(field)) \/ handleNext)
           => errors' = validateStep(currentStep, formData)
       /\ event' = "invalid"
           => errors' = validateStep(currentStep', formData)
       /\ event' \in {"pay", "direct"} => errors' = NoErrors]_vars

\* after a 409 put "already registered" on the well-formed email, a
\* validation of step 1 (the one revision spent is the blur of the email)
\* has left the error object empty
C26_Witness ==
    /\ hist.conflict
    /\ touched = {"email"}
    /\ nRevisions = 1
    /\ currentStep = 1
    /\ errors = NoErrors
    /\ event = "none"

\* the latest step put "already registered" on the email because the
\* commit of the invocation p got HTTP 409
RejectedEmailOf(p) ==
    /\ p.pc \in {"commit", "direct"}
    /\ proc' = Return(p)
    /\ event' \in DuplicateEmailEvents

\* C27: each key of the error object names a field whose current value fails
\* its validator or is the email the server rejected with HTTP 409 (also
\* when the 409 arrives after the email was edited): a step leaves a key on
\* a field only if the value fails, or the key was there and the value is
\* the same, or the commit that got the 409 carried the current email; and
\* changing a field's value removes that field's key and no other.
C27_ErrorKeysNameInvalidFields ==
    [][/\ \A f \in DOMAIN errors' :
            \/ FieldFails(f, formData')
            \/ /\ HasError(errors, f)
               /\ errors'[f] = errors[f]
               /\ formData'[f] = formData[f]
            \/ /\ f = "email"
               /\ \E p \in InFlight :
                     RejectedEmailOf(p) /\ p.fd.email = formData'.email
       /\ \A field \in Fields : \A value \in FieldValues(field) :
            updateFormData(field, value)
              => errors' = DeleteKey(errors, field)]_vars

\* C28: loadRazorpayScript is idempotent: after any number n >= 1 of calls
\* the page holds as many injected checkout script elements as after one
\* call, and each call resolves to true or to false.
C28_LoadScriptIdempotent ==
    /\ hist.scripts <= 1
    /\ \A p \in InFlight :
         p.pc = "script" => \E scriptLoaded \in BOOLEAN :
                                ENABLED ScriptReply(p, scriptLoaded)

\* C29: when createOrder fails (success = false or an error), the invocation
\* returns: no widget is opened, nothing is called (neither verifyPayment
\* nor handleFormSubmit), the flag and the current step are unchanged and
\* the busy indicator is false.
C29_OrderFailureAborts ==
    [][\A p \in InFlight :
         OrderReply(p, FALSE)
           => /\ proc' = proc (-) SetToBag({p})
              /\ BagCardinality(proc') = BagCardinality(proc) - 1
              /\ calls' = {}
              /\ paymentCompleted' = paymentCompleted
              /\ currentStep' = currentStep
              /\ showSuccessModal' = showSuccessModal
              /\ onLoad' = FALSE]_vars

\* createOrder failed for the only invocation in flight: nothing is
\* suspended, nothing was called, the wizard is on the last step, idle
C29_Witness ==
    /\ event = "orderfail"
    /\ proc = EmptyBag
    /\ calls = {}
    /\ ~paymentCompleted
    /\ currentStep = NumSteps - 1
    /\ ~onLoad

\* C30: whatever the external calls return or throw, and whether the widget
\* completes, is dismissed or stays open, a busy indicator that is true
\* becomes false; handleSubmit never consults the indicator, so Submit can
\* then be started again as soon as the wizard shows the last step.
C30_BusyEventuallyFalse == onLoad ~> ~onLoad

\* the direct commit failed (neither Accepted nor HTTP 409): nothing is
\* suspended and the busy indicator is false on the last step
C30_Witness ==
    /\ event = "directFailure"
    /\ proc = EmptyBag
    /\ ~onLoad
    /\ paymentCompleted
    /\ currentStep = NumSteps - 1

\* each counted operation has been called exactly once
OneCallEach == hist.made = [op \in CountedOperations |-> 1]

\* C31: scenario A: once Submit has passed validation with the flag false
\* and entered the payment branch, and every external call succeeds, the
\* success modal is eventually shown by an Accepted commit, with exactly one
\* createOrder, one verifyPayment and one handleFormSubmit call made; no
\* operation is ever called twice.
C31_ScenarioASucceeds ==
    /\ (event = "pay" /\ ~paymentCompleted)
         ~> (showSuccessModal /\ event = "accepted" /\ OneCallEach)
    /\ [](\A op \in CountedOperations : hist.made[op] <= 1)

\* the Accepted commit of scenario A has just shown the success modal, with
\* a generated password of twelve characters
C31_Witness ==
    /\ showSuccessModal
    /\ event = "accepted"
    /\ OneCallEach
    /\ proc = EmptyBag
    /\ Len(generatedPassword) = PasswordLength

\* C32: every createOrder request sent by Submit carries an amount and a
\* currency, and the widget is constructed with the amount, the currency
\* and the id of the order returned for it.
C32_OrderCarriesAmountAndCurrency ==
    /\ hist.order.sent
         => {"amount", "currency"} \subseteq DOMAIN hist.order.body
    /\ hist.order.opened
         => /\ hist.order.options.amount = hist.order.returned.amount
            /\ hist.order.options.currency = hist.order.returned.currency
            /\ hist.order.options.order_id = hist.order.returned.id

\* C33: with current step s, every step below s validates to an empty error
\* object against the current record, also after HTTP 409 has set the step
\* to 1 while step 0 was edited during the commit.
C33_LowerStepsValid ==
    \A step \in Steps :
        step < currentStep => validateStep(step, formData) = NoErrors

\* C34: when an Accepted commit shows the success modal, the password
\* displayed (generatedPassword) is the password of the record that commit
\* carried, whatever Submits and widget callbacks came in between.
C34_DisplayedPasswordIsAccepted ==
    [][\A p \in InFlight : \A reply \in PostReplies :
         ((CommitReply(p, reply) \/ DirectReply(p, reply))
            /\ ResponseStatus(handleFormSubmit(reply)))
           => (showSuccessModal' /\ generatedPassword' = p.fd.password)]_vars

\* C35: the success modal becomes shown only by the step in which an
\* account-creation call settles with a 2xx response: never by a validation
\* failure, a gateway failure, a cancellation, HTTP 409 or another failure
\* of the commit.
C35_SuccessOnlyAfterAccepted ==
    [][(~showSuccessModal /\ showSuccessModal')
         => \E p \in InFlight : \E reply \in PostReplies :
              /\ reply.kind = "response"
              /\ reply.code \in 200..299
              /\ (CommitReply(p, reply) \/ DirectReply(p, reply))]_vars

\* the direct commit of a retry was Accepted: the modal is shown and the
\* flag is cleared
C35_Witness ==
    /\ showSuccessModal
    /\ event = "directAccepted"
    /\ ~paymentCompleted
    /\ proc = EmptyBag

====
